---- MODULE Spec2Model ----
(***************************************************************************)
(* Model of the create-document-button view model                          *)
(* (src/ggrc-client/js/components/create-document-button/                  *)
(*  create-document-button.js): one run of openPicker / mapDocuments.      *)
(*                                                                         *)
(* Every deferred of the code is a variable holding its state ("none"      *)
(* before it is created, then "pending", "resolved" or "rejected").        *)
(* An action is the settlement of one external deferred (picker,           *)
(* existence query, confirmation prompt, admin grant, one save, permission *)
(* refresh) together with the whole chain of callbacks that this           *)
(* settlement runs.  log records, in order, every external call and every  *)
(* dispatched event.                                                       *)
(***************************************************************************)
EXTENDS Integers, Sequences, FiniteSets, TLC

\* ---- bounds ------------------------------------------------------------
MaxFiles == 2
MaxId == 2
MaxTitle == 2

Ids == 1..MaxId
Titles == 1..MaxTitle

\* A picked file: file.id, file.title
FileDescriptor == [id : Ids, title : Titles]

FileLists == UNION {[1..n -> FileDescriptor] : n \in 0..MaxFiles}

\* the orders in which the existence service may list its n statuses
Orders(n) == {p \in [1..n -> 1..n] : \A i, j \in 1..n : p[i] = p[j] => i = j}

\* ---- values ------------------------------------------------------------
\* A resolution value of a deferred is either an array or a single object.
Arr(s) == [isArray |-> TRUE, items |-> s]
Single(x) == [isArray |-> FALSE, object |-> x]

Pending == [state |-> "pending", value |-> Arr(<<>>)]
Resolved(v) == [state |-> "resolved", value |-> v]
NoDfd == [state |-> "none", value |-> Arr(<<>>)]

\* new Document(doc.object): the wrapped object of a status
ExistingDocument(status) == [origin |-> "existing", id |-> status.gdrive_id, title |-> 0]

\* new Document({title: file.title, source_gdrive_id: file.id, ...}), saved
NewDocument(file) == [origin |-> "created", id |-> file.id, title |-> file.title]

\* an entry of log: an external call or a dispatched event, with its argument
Entry(op, arg) == [op |-> op, arg |-> arg]

SeqMap(F(_), s) == [i \in 1..Len(s) |-> F(s[i])]

RECURSIVE SelectIdx(_, _, _)
SelectIdx(s, Keep(_), i) ==
  IF i > Len(s) THEN <<>>
  ELSE IF Keep(s[i]) THEN <<s[i]>> \o SelectIdx(s, Keep, i + 1)
       ELSE SelectIdx(s, Keep, i + 1)

\* ---- state -------------------------------------------------------------
VARIABLES
  picker,            \* the deferred returned by uploadFiles()
  files,             \* the argument of mapDocuments
  existDfd,          \* the deferred returned by checkDocumentsExist
  statuses,          \* its resolution value
  existingDocuments, \* mapDocuments: let existingDocuments
  newFiles,          \* mapDocuments: let newFiles
  confirmation,      \* showConfirm: let confirmation
  adminDfd,          \* the deferred returned by makeAdmin
  dfd,               \* useExistingDocuments: let dfd
  dfdDocs,           \* createDocuments: let dfdDocs (state of each save)
  docsDfd,           \* createDocuments: the returned $.when(...dfdDocs)
  whenDfd,           \* mapDocuments: $.when(useExisting..., createDocuments...)
  documents,         \* the argument of refreshPermissionsAndMap
  refreshDfd,        \* the deferred returned by refreshPermissions()
  runDfd,            \* the promise returned by mapDocuments
  saveOrder,         \* history: the indices of dfdDocs in the order they settled
  log                \* external calls and dispatched events, in order

vars == <<picker, files, existDfd, statuses, existingDocuments, newFiles,
          confirmation, adminDfd, dfd, dfdDocs, docsDfd, whenDfd, documents,
          refreshDfd, runDfd, saveOrder, log>>

Init ==
  /\ picker = "pending"
  /\ files = <<>>
  /\ existDfd = "none"
  /\ statuses = <<>>
  /\ existingDocuments = <<>>
  /\ newFiles = <<>>
  /\ confirmation = "none"
  /\ adminDfd = "none"
  /\ dfd = NoDfd
  /\ dfdDocs = <<>>
  /\ docsDfd = NoDfd
  /\ whenDfd = "none"
  /\ documents = <<>>
  /\ refreshDfd = "none"
  /\ runDfd = "none"
  /\ saveOrder = <<>>
  /\ log = <<>>

\* ---- pure parts of the code ---------------------------------------------

\* files.map((file) => file.id)
gdrive_ids(fs) == SeqMap(LAMBDA f : f.id, fs)

\* files.find((file) => file.id === status.gdrive_id): the first match
\* (the existence service answers for picked files only, so there is one)
find(fs, id) ==
  LET hits == {i \in 1..Len(fs) : fs[i].id = id}
  IN fs[CHOOSE i \in hits : \A j \in hits : i <= j]

\* the statuses.forEach loop of mapDocuments
Partition(fs, sts) ==
  [existingDocuments |-> SelectIdx(sts, LAMBDA st : st.exists, 1),
   newFiles |-> SeqMap(LAMBDA st : find(fs, st.gdrive_id),
                       SelectIdx(sts, LAMBDA st : ~st.exists, 1))]

\* mutant: only the first matched document is sent to make_admin
makeAdminIds_first(docs) == <<docs[1].gdrive_id>>

\* documents.map((document) => document.gdrive_id)
makeAdminIds(docs) == SeqMap(LAMBDA d : d.gdrive_id, docs)

\* documents.map((doc) => new Document(doc.object))
WrapDocuments(docs) == SeqMap(ExistingDocument, docs)

\* mutant: resolve also replaces the value of a settled deferred
Resolve_overwrites(d, v) == Resolved(v)

\* deferred.resolve(v): settles a pending deferred, no effect otherwise
Resolve(d, v) == IF d.state = "pending" THEN Resolved(v) ELSE d

\* can-util makeArray: copies an array, wraps a single object
makeArray(v) == IF v.isArray THEN v.items ELSE <<v.object>>

\* mutant: the merge forgets the new-document branch
Merge_dropsNew(existingDocs, newDocs) == makeArray(existingDocs)

\* mutant: the merge puts the new documents first
Merge_newFirst(existingDocs, newDocs) == makeArray(newDocs) \o makeArray(existingDocs)

\* [...makeArray(existingDocs), ...makeArray(newDocs)]
Merge(existingDocs, newDocs) == makeArray(existingDocs) \o makeArray(newDocs)

\* mutant: a join that only waits for settlement and ignores rejections
WhenState_ignoresRejection(states) ==
  IF \A i \in DOMAIN states : states[i] \in {"resolved", "rejected"} THEN "resolved"
  ELSE "pending"

\* mutant: a join that resolves with the first resolution
WhenState_firstResolved(states) ==
  IF \E i \in DOMAIN states : states[i] = "rejected" THEN "rejected"
  ELSE IF \E i \in DOMAIN states : states[i] = "resolved" THEN "resolved"
  ELSE "pending"

\* state of $.when(a, b): rejected as soon as one is, resolved when all are
WhenState(states) ==
  IF \E i \in DOMAIN states : states[i] = "rejected" THEN "rejected"
  ELSE IF \A i \in DOMAIN states : states[i] = "resolved" THEN "resolved"
  ELSE "pending"

\* value of $.when(...dfds) as a subordinate of the outer $.when: one
\* resolution argument stays single, several are collected into an array
WhenValue(values) == IF Len(values) = 1 THEN Single(values[1]) ELSE Arr(values)

\* $.when(...dfdDocs) for the saves of fs with the given states
WhenSaves(fs, states) ==
  LET st == WhenState(states)
  IN IF st = "resolved" THEN Resolved(WhenValue(SeqMap(NewDocument, fs)))
     ELSE [state |-> st, value |-> Arr(<<>>)]

\* useExistingDocuments up to its return: the deferred, the prompt, the calls
useExistingDocuments(docs) ==
  IF Len(docs) = 0
  THEN [dfd |-> Resolve(Pending, Arr(<<>>)), confirmation |-> "none", calls |-> <<>>]
  ELSE [dfd |-> Pending, confirmation |-> "pending",
        calls |-> <<Entry("confirm", <<Len(docs)>>)>>]

\* mutant: BEFORE_DOCUMENT_CREATE is dispatched before files.length is tested
createDocuments_alwaysDispatches(fs) ==
  IF Len(fs) = 0
  THEN [docsDfd |-> Resolved(Arr(<<>>)), dfdDocs |-> <<>>,
        calls |-> <<Entry("BEFORE_DOCUMENT_CREATE", <<>>)>>]
  ELSE [docsDfd |-> Pending,
        dfdDocs |-> [i \in 1..Len(fs) |-> "pending"],
        calls |-> <<Entry("BEFORE_DOCUMENT_CREATE", <<>>)>>
                  \o SeqMap(LAMBDA f : Entry("save", <<f>>), fs)]

\* createDocuments up to its return: the deferred, the saves, the calls
createDocuments(fs) ==
  IF Len(fs) = 0
  THEN [docsDfd |-> Resolved(Arr(<<>>)), dfdDocs |-> <<>>, calls |-> <<>>]
  ELSE [docsDfd |-> Pending,
        dfdDocs |-> [i \in 1..Len(fs) |-> "pending"],
        calls |-> <<Entry("BEFORE_DOCUMENT_CREATE", <<>>)>>
                  \o SeqMap(LAMBDA f : Entry("save", <<f>>), fs)]

\* mutant: the refresh is started without looking at documents.length
refreshPermissionsAndMap_alwaysRefreshes(docs) ==
  [refreshDfd |-> "pending", calls |-> <<Entry("refreshPermissions", <<>>)>>]

\* mutant: the dispatch is also made outside the callback of the refresh
refreshPermissionsAndMap_dispatchesTwice(docs) ==
  IF Len(docs) > 0
  THEN [refreshDfd |-> "pending",
        calls |-> <<Entry("refreshPermissions", <<>>), Entry("MAP_OBJECTS", docs)>>]
  ELSE [refreshDfd |-> "none", calls |-> <<Entry("MAP_OBJECTS", docs)>>]

\* mutant: without documents nothing is dispatched
refreshPermissionsAndMap_skipsDispatch(docs) ==
  IF Len(docs) > 0
  THEN [refreshDfd |-> "pending", calls |-> <<Entry("refreshPermissions", <<>>)>>]
  ELSE [refreshDfd |-> "none", calls |-> <<>>]

\* refreshPermissionsAndMap up to its return: with documents it starts the
\* refresh, without it dispatches MAP_OBJECTS at once; it returns nothing
refreshPermissionsAndMap(docs) ==
  IF Len(docs) > 0
  THEN [refreshDfd |-> "pending", calls |-> <<Entry("refreshPermissions", <<>>)>>]
  ELSE [refreshDfd |-> "none", calls |-> <<Entry("MAP_OBJECTS", docs)>>]

\* The two .then of mapDocuments behind $.when(d, n), run when a branch
\* settles: d, n are the branches after the settlement, lg the log so far.
Join(d, n, lg) ==
  LET w == IF whenDfd \in {"none", "pending"}
           THEN WhenState(<<d.state, n.state>>) ELSE whenDfd
      fired == whenDfd \in {"none", "pending"}
      docs == Merge(d.value, n.value)
      fin == refreshPermissionsAndMap(docs)
  IN /\ whenDfd' = w
     /\ IF fired /\ w = "resolved"
        THEN /\ documents' = docs
             /\ refreshDfd' = fin.refreshDfd
             /\ log' = lg \o fin.calls
             /\ runDfd' = "resolved"
        ELSE /\ UNCHANGED <<documents, refreshDfd>>
             /\ log' = lg
             /\ runDfd' = IF fired /\ w = "rejected" THEN "rejected" ELSE runDfd

\* ---- actions ----------------------------------------------------------

\* uploadFiles() resolves: openPicker calls mapDocuments(files), which
\* issues the existence query
PickerResolve ==
  /\ picker = "pending"
  /\ \E f \in FileLists :
       /\ files' = f
       /\ log' = Append(log, Entry("documents_exist", gdrive_ids(f)))
  /\ picker' = "resolved"
  /\ existDfd' = "pending"
  /\ runDfd' = "pending"
  /\ UNCHANGED <<saveOrder, statuses, existingDocuments, newFiles, confirmation, adminDfd,
                 dfd, dfdDocs, docsDfd, whenDfd, documents, refreshDfd>>

\* mutant: the cancellation callback also starts mapDocuments([])
PickerReject_startsRun ==
  /\ picker = "pending"
  /\ picker' = "rejected"
  /\ log' = log \o <<Entry("cancel", <<>>), Entry("documents_exist", <<>>)>>
  /\ existDfd' = "pending"
  /\ runDfd' = "pending"
  /\ UNCHANGED <<saveOrder, files, statuses, existingDocuments, newFiles,
                 confirmation, adminDfd, dfd, dfdDocs, docsDfd, whenDfd,
                 documents, refreshDfd>>

\* uploadFiles() rejects: openPicker dispatches 'cancel'
PickerReject ==
  /\ picker = "pending"
  /\ picker' = "rejected"
  /\ log' = Append(log, Entry("cancel", <<>>))
  /\ UNCHANGED <<saveOrder, files, existDfd, statuses, existingDocuments, newFiles,
                 confirmation, adminDfd, dfd, dfdDocs, docsDfd, whenDfd,
                 documents, refreshDfd, runDfd>>

\* the existence query answers with one status per picked file, in any
\* order: the first .then of mapDocuments partitions and starts both branches
ExistResolve ==
  /\ existDfd = "pending"
  /\ \E p \in Orders(Len(files)), ex \in [Ids -> BOOLEAN] :
       LET sts == [i \in 1..Len(files) |->
                    [gdrive_id |-> files[p[i]].id, exists |-> ex[files[p[i]].id]]]
           part == Partition(files, sts)
           ue == useExistingDocuments(part.existingDocuments)
           cd == createDocuments(part.newFiles)
       IN /\ statuses' = sts
          /\ existingDocuments' = part.existingDocuments
          /\ newFiles' = part.newFiles
          /\ confirmation' = ue.confirmation
          /\ dfd' = ue.dfd
          /\ dfdDocs' = cd.dfdDocs
          /\ docsDfd' = cd.docsDfd
          /\ Join(ue.dfd, cd.docsDfd, log \o ue.calls \o cd.calls)
  /\ existDfd' = "resolved"
  /\ UNCHANGED <<saveOrder, picker, files, adminDfd>>

\* mutant: a failed existence query is treated as an empty answer
ExistReject_finalizes ==
  /\ existDfd = "pending"
  /\ existDfd' = "rejected"
  /\ runDfd' = "resolved"
  /\ log' = Append(log, Entry("MAP_OBJECTS", <<>>))
  /\ UNCHANGED <<saveOrder, picker, files, statuses, existingDocuments, newFiles,
                 confirmation, adminDfd, dfd, dfdDocs, docsDfd, whenDfd,
                 documents, refreshDfd>>

\* the existence query fails: both .then of mapDocuments are skipped
ExistReject ==
  /\ existDfd = "pending"
  /\ existDfd' = "rejected"
  /\ runDfd' = "rejected"
  /\ UNCHANGED <<saveOrder, picker, files, statuses, existingDocuments, newFiles,
                 confirmation, adminDfd, dfd, dfdDocs, docsDfd, whenDfd,
                 documents, refreshDfd, log>>

\* mutant: the proceed callback issues the admin grant twice
ConfirmResolve_grantsTwice ==
  /\ confirmation = "pending"
  /\ confirmation' = "resolved"
  /\ adminDfd' = "pending"
  /\ log' = log \o <<Entry("make_admin", makeAdminIds(existingDocuments)),
                      Entry("make_admin", makeAdminIds(existingDocuments))>>
  /\ UNCHANGED <<saveOrder, picker, files, existDfd, statuses, existingDocuments,
                 newFiles, dfd, dfdDocs, docsDfd, whenDfd, documents, refreshDfd,
                 runDfd>>

\* the user proceeds: () => this.makeAdmin(documents)
ConfirmResolve ==
  /\ confirmation = "pending"
  /\ confirmation' = "resolved"
  /\ adminDfd' = "pending"
  /\ log' = Append(log, Entry("make_admin", makeAdminIds(existingDocuments)))
  /\ UNCHANGED <<saveOrder, picker, files, existDfd, statuses, existingDocuments, newFiles,
                 dfd, dfdDocs, docsDfd, whenDfd, documents, refreshDfd, runDfd>>

\* mutant: the decline callback does not resolve dfd, the second .then does
ConfirmReject_resolvesDocs ==
  /\ confirmation = "pending"
  /\ confirmation' = "rejected"
  /\ LET d == Resolve(dfd, Arr(WrapDocuments(existingDocuments)))
     IN /\ dfd' = d
        /\ Join(d, docsDfd, log)
  /\ UNCHANGED <<saveOrder, picker, files, existDfd, statuses, existingDocuments,
                 newFiles, adminDfd, dfdDocs, docsDfd>>

\* the user declines: () => dfd.resolve([]), then the second .then runs
\* dfd.resolve(docs) on the settled dfd
ConfirmReject ==
  /\ confirmation = "pending"
  /\ confirmation' = "rejected"
  /\ LET d == Resolve(Resolve(dfd, Arr(<<>>)), Arr(WrapDocuments(existingDocuments)))
     IN /\ dfd' = d
        /\ Join(d, docsDfd, log)
  /\ UNCHANGED <<saveOrder, picker, files, existDfd, statuses, existingDocuments, newFiles,
                 adminDfd, dfdDocs, docsDfd>>

\* makeAdmin succeeds: the second .then wraps the documents and resolves dfd
AdminResolve ==
  /\ adminDfd = "pending"
  /\ adminDfd' = "resolved"
  /\ LET d == Resolve(dfd, Arr(WrapDocuments(existingDocuments)))
     IN /\ dfd' = d
        /\ Join(d, docsDfd, log)
  /\ UNCHANGED <<saveOrder, picker, files, existDfd, statuses, existingDocuments, newFiles,
                 confirmation, dfdDocs, docsDfd>>

\* makeAdmin fails: the second .then has no failure callback, dfd is left alone
AdminReject ==
  /\ adminDfd = "pending"
  /\ adminDfd' = "rejected"
  /\ UNCHANGED <<picker, files, existDfd, statuses, existingDocuments, newFiles,
                 confirmation, dfd, dfdDocs, docsDfd, whenDfd, documents,
                 refreshDfd, runDfd, saveOrder, log>>

\* one instance.save() succeeds
SaveResolve ==
  \E i \in DOMAIN dfdDocs :
    /\ dfdDocs[i] = "pending"
    /\ LET ss == [dfdDocs EXCEPT ![i] = "resolved"]
           n == IF docsDfd.state = "pending" THEN WhenSaves(newFiles, ss) ELSE docsDfd
       IN /\ dfdDocs' = ss
          /\ saveOrder' = Append(saveOrder, i)
          /\ docsDfd' = n
          /\ Join(dfd, n, log)
    /\ UNCHANGED <<picker, files, existDfd, statuses, existingDocuments, newFiles,
                   confirmation, adminDfd, dfd>>

\* mutant: DOCUMENT_CREATE_FAILED is dispatched for every failed save
SaveReject_dispatchesEach ==
  \E i \in DOMAIN dfdDocs :
    /\ dfdDocs[i] = "pending"
    /\ LET ss == [dfdDocs EXCEPT ![i] = "rejected"]
           n == IF docsDfd.state = "pending" THEN WhenSaves(newFiles, ss) ELSE docsDfd
           lg == Append(log, Entry("DOCUMENT_CREATE_FAILED", <<>>))
       IN /\ dfdDocs' = ss
          /\ saveOrder' = Append(saveOrder, i)
          /\ docsDfd' = n
          /\ Join(dfd, n, lg)
    /\ UNCHANGED <<picker, files, existDfd, statuses, existingDocuments, newFiles,
                   confirmation, adminDfd, dfd>>

\* one instance.save() fails: the first failure rejects $.when(...dfdDocs),
\* whose .fail dispatches DOCUMENT_CREATE_FAILED
SaveReject ==
  \E i \in DOMAIN dfdDocs :
    /\ dfdDocs[i] = "pending"
    /\ LET ss == [dfdDocs EXCEPT ![i] = "rejected"]
           n == IF docsDfd.state = "pending" THEN WhenSaves(newFiles, ss) ELSE docsDfd
           lg == IF docsDfd.state = "pending" /\ n.state = "rejected"
                 THEN Append(log, Entry("DOCUMENT_CREATE_FAILED", <<>>)) ELSE log
       IN /\ dfdDocs' = ss
          /\ saveOrder' = Append(saveOrder, i)
          /\ docsDfd' = n
          /\ Join(dfd, n, lg)
    /\ UNCHANGED <<picker, files, existDfd, statuses, existingDocuments, newFiles,
                   confirmation, adminDfd, dfd>>

\* refreshPermissions() succeeds: dfd.then dispatches MAP_OBJECTS
RefreshResolve ==
  /\ refreshDfd = "pending"
  /\ refreshDfd' = "resolved"
  /\ log' = Append(log, Entry("MAP_OBJECTS", documents))
  /\ UNCHANGED <<saveOrder, picker, files, existDfd, statuses, existingDocuments, newFiles,
                 confirmation, adminDfd, dfd, dfdDocs, docsDfd, whenDfd,
                 documents, runDfd>>

\* mutant: the dispatch is also made when the refresh fails
RefreshReject_dispatches ==
  /\ refreshDfd = "pending"
  /\ refreshDfd' = "rejected"
  /\ log' = Append(log, Entry("MAP_OBJECTS", documents))
  /\ UNCHANGED <<saveOrder, picker, files, existDfd, statuses, existingDocuments,
                 newFiles, confirmation, adminDfd, dfd, dfdDocs, docsDfd, whenDfd,
                 documents, runDfd>>

\* refreshPermissions() fails: dfd.then has no failure callback
RefreshReject ==
  /\ refreshDfd = "pending"
  /\ refreshDfd' = "rejected"
  /\ UNCHANGED <<saveOrder, picker, files, existDfd, statuses, existingDocuments, newFiles,
                 confirmation, adminDfd, dfd, dfdDocs, docsDfd, whenDfd,
                 documents, runDfd, log>>

Next ==
  \/ PickerResolve
  \/ PickerReject
  \/ ExistResolve
  \/ ExistReject
  \/ ConfirmResolve
  \/ ConfirmReject
  \/ AdminResolve
  \/ AdminReject
  \/ SaveResolve
  \/ SaveReject
  \/ RefreshResolve
  \/ RefreshReject

Spec == Init /\ [][Next]_vars

\* every external call and the prompt settle once they are pending
FairSpec ==
  /\ Spec
  /\ WF_vars(PickerResolve \/ PickerReject)
  /\ WF_vars(ExistResolve \/ ExistReject)
  /\ WF_vars(ConfirmResolve \/ ConfirmReject)
  /\ WF_vars(AdminResolve \/ AdminReject)
  /\ WF_vars(SaveResolve \/ SaveReject)
  /\ WF_vars(RefreshResolve \/ RefreshReject)

\* ---- observations of a run ------------------------------------------------

OpIdx(op) == {i \in DOMAIN log : log[i].op = op}

Count(op) == Cardinality(OpIdx(op))

\* the exists=true statuses, in the order the service listed them
MatchedStatuses == SelectIdx(statuses, LAMBDA st : st.exists, 1)

\* the existing documents admitted by a proceed and a successful admin grant
Admitted ==
  IF confirmation = "resolved" /\ adminDfd = "resolved" THEN Len(MatchedStatuses) ELSE 0

\* the new files whose save succeeded
Saved == Cardinality({i \in DOMAIN dfdDocs : dfdDocs[i] = "resolved"})

NetworkOrPrompt == {"documents_exist", "confirm", "make_admin", "save", "refreshPermissions"}

\* ---- claims ----------------------------------------------------------------

\* C1: every published objects-mapped notification carries as many documents
\* as (statuses admitted by proceed and a successful admin grant) + (new files
\* whose save succeeded), and never more than there are picked files.
C1_MergedCount ==
  \A i \in OpIdx("MAP_OBJECTS") :
    /\ Len(log[i].arg) = Admitted + Saved
    /\ Len(log[i].arg) <= Len(files)

C1_Witness ==
  \E i \in OpIdx("MAP_OBJECTS") : Len(log[i].arg) = 2 /\ Admitted = 1 /\ Saved = 1

\* C2: with existing and new files, once a save has failed the run is
\* rejected, the permission refresh is never called and no objects-mapped
\* notification is published, whatever the prompt and the admin grant do.
C2_SaveFailureNoFinalize ==
  (/\ Len(existingDocuments) > 0
   /\ Len(newFiles) > 0
   /\ \E i \in DOMAIN dfdDocs : dfdDocs[i] = "rejected")
  => /\ runDfd = "rejected"
     /\ refreshDfd = "none"
     /\ Count("refreshPermissions") = 0
     /\ Count("MAP_OBJECTS") = 0

C2_Witness ==
  /\ Len(existingDocuments) > 0
  /\ Len(newFiles) > 0
  /\ \E i \in DOMAIN dfdDocs : dfdDocs[i] = "rejected"
  /\ adminDfd = "resolved"
  /\ dfd.state = "resolved"
  /\ Len(dfd.value.items) > 0

\* C3 (as claimed): after a proceed, a failed admin grant rejects the
\* existing-document branch and the run.
C3_AdminFailureRejects ==
  (confirmation = "resolved" /\ adminDfd = "rejected")
  => (dfd.state = "rejected" /\ runDfd = "rejected")

\* C4 (as claimed): a failed permission refresh makes the promise returned by
\* mapDocuments fail.
C4_RefreshFailureRejectsRun ==
  refreshDfd = "rejected" => runDfd = "rejected"

\* C5: when the picker signals cancellation, 'cancel' is dispatched and the
\* run does nothing else: no query, prompt, grant, save or other notification.
C5_CancelDoesNothingElse ==
  picker = "rejected"
  => /\ log = <<Entry("cancel", <<>>)>>
     /\ existDfd = "none"
     /\ confirmation = "none"
     /\ adminDfd = "none"
     /\ dfdDocs = <<>>
     /\ refreshDfd = "none"
     /\ runDfd = "none"

C5_Witness == picker = "rejected" /\ Count("cancel") = 1

\* C6: when the existence query fails the run is rejected and nothing but the
\* query has happened or happens: no prompt, grant, notification, save, refresh.
C6_ExistFailureAborts ==
  existDfd = "rejected"
  => /\ runDfd = "rejected"
     /\ Len(log) = 1
     /\ log[1].op = "documents_exist"
     /\ confirmation = "none"
     /\ adminDfd = "none"
     /\ dfdDocs = <<>>
     /\ refreshDfd = "none"

C6_Witness == existDfd = "rejected" /\ Len(files) > 0 /\ Count("documents_exist") = 1

\* C7 (as claimed): with an empty list of picked files no network call and no
\* prompt occurs during the run.
C7_EmptyNoNetwork ==
  (picker = "resolved" /\ Len(files) = 0)
  => \A i \in DOMAIN log : log[i].op \notin NetworkOrPrompt

\* C7 (amended): with an empty list of picked files the existence query, with
\* an empty id list, is the only call of the run; once it has succeeded the
\* run has completed by publishing objects-mapped with an empty list.
C7_EmptyOnlyExistQuery ==
  (picker = "resolved" /\ Len(files) = 0)
  => /\ Len(log) >= 1
     /\ log[1].op = "documents_exist"
     /\ Len(log[1].arg) = 0
     /\ \A i \in DOMAIN log : i > 1 => log[i].op \notin NetworkOrPrompt
     /\ existDfd = "resolved"
        => /\ Len(log) = 2
           /\ log[2].op = "MAP_OBJECTS"
           /\ Len(log[2].arg) = 0
           /\ runDfd = "resolved"

C7_Witness ==
  /\ picker = "resolved"
  /\ Len(files) = 0
  /\ existDfd = "resolved"
  /\ Count("MAP_OBJECTS") = 1

\* C8: after a decline the admin grant is never called and the existing
\* branch is resolved with no document; if moreover every file exists, the
\* run has completed with one objects-mapped carrying an empty list, no save.
C8_DeclineAdmitsNothing ==
  confirmation = "rejected"
  => /\ adminDfd = "none"
     /\ Count("make_admin") = 0
     /\ dfd.state = "resolved"
     /\ Len(dfd.value.items) = 0
     /\ \A i \in OpIdx("MAP_OBJECTS") :
          \A k \in DOMAIN log[i].arg : log[i].arg[k].origin # "existing"
     /\ Len(newFiles) = 0
        => /\ runDfd = "resolved"
           /\ Count("save") = 0
           /\ Count("MAP_OBJECTS") = 1
           /\ \A i \in OpIdx("MAP_OBJECTS") : Len(log[i].arg) = 0

C8_Witness ==
  /\ confirmation = "rejected"
  /\ Len(files) = 2
  /\ Len(newFiles) = 0
  /\ Count("MAP_OBJECTS") = 1

\* C9: after a proceed the admin grant has been called exactly once, with the
\* ids of exactly the exists=true statuses; the existing branch is resolved
\* only once that call has succeeded, with one document per matched status;
\* if every file exists no save is issued and objects-mapped carries exactly
\* these documents.
C9_ProceedAdmitsMatched ==
  confirmation = "resolved"
  => /\ Count("make_admin") = 1
     /\ \A i \in OpIdx("make_admin") :
          /\ Len(log[i].arg) = Len(MatchedStatuses)
          /\ \A k \in DOMAIN log[i].arg : log[i].arg[k] = MatchedStatuses[k].gdrive_id
     /\ dfd.state \in {"pending", "resolved"}
     /\ dfd.state = "resolved"
        => /\ adminDfd = "resolved"
           /\ Len(dfd.value.items) = Len(MatchedStatuses)
           /\ \A k \in DOMAIN dfd.value.items :
                /\ dfd.value.items[k].origin = "existing"
                /\ dfd.value.items[k].id = MatchedStatuses[k].gdrive_id
     /\ Len(MatchedStatuses) = Len(files)
        => /\ Count("save") = 0
           /\ \A i \in OpIdx("MAP_OBJECTS") :
                dfd.state = "resolved" /\ log[i].arg = dfd.value.items

C9_Witness ==
  /\ confirmation = "resolved"
  /\ Len(files) = 2
  /\ Len(MatchedStatuses) = 2
  /\ \E i \in OpIdx("MAP_OBJECTS") : Len(log[i].arg) = 2

\* the list a fully successful run has to publish
ExpectedDocuments ==
  (IF Admitted > 0 THEN SeqMap(ExistingDocument, MatchedStatuses) ELSE <<>>)
  \o SeqMap(NewDocument, newFiles)

AllSucceeded ==
  /\ existDfd = "resolved"
  /\ dfd.state = "resolved"
  /\ docsDfd.state = "resolved"
  /\ refreshDfd \in {"none", "resolved"}

\* C10: objects-mapped is published at most once in a run, exactly once when
\* the existence query, both branches and the refresh (if invoked) have all
\* succeeded, and its payload is the full merged document list.
C10_MappedOnce ==
  /\ Count("MAP_OBJECTS") <= 1
  /\ AllSucceeded => Count("MAP_OBJECTS") = 1
  /\ \A i \in OpIdx("MAP_OBJECTS") :
       /\ AllSucceeded
       /\ log[i].arg = documents
       /\ log[i].arg = ExpectedDocuments

C10_Witness ==
  /\ AllSucceeded
  /\ refreshDfd = "resolved"
  /\ Count("MAP_OBJECTS") = 1
  /\ Len(documents) = 2
  /\ Len(existingDocuments) = 1

\* the picked files that are new: one exists=false status each
NewCount == Cardinality({i \in DOMAIN statuses : ~statuses[i].exists})

\* the number of times x occurs in the sequence q
Occ(q, x) == Cardinality({i \in DOMAIN q : q[i] = x})

\* C11: an objects-mapped notification with a non-empty list is published
\* only after the permission refresh was started and has succeeded; while the
\* refresh of a non-empty merged list has not succeeded nothing is published.
C11_RefreshBeforeMapped ==
  /\ \A i \in OpIdx("MAP_OBJECTS") :
       Len(log[i].arg) > 0
       => /\ refreshDfd = "resolved"
          /\ \E j \in OpIdx("refreshPermissions") : j < i
  /\ (whenDfd = "resolved" /\ Len(ExpectedDocuments) > 0 /\ refreshDfd # "resolved")
     => Count("MAP_OBJECTS") = 0

C11_Witness ==
  /\ refreshDfd = "resolved"
  /\ \E i \in OpIdx("MAP_OBJECTS") : Len(log[i].arg) = 1

\* C12: the permission refresh is called only for a non-empty merged list;
\* for an empty merged list it is skipped and objects-mapped is still
\* published, with an empty list.
C12_RefreshOnlyIfDocuments ==
  /\ (Count("refreshPermissions") > 0 \/ refreshDfd # "none")
     => (whenDfd = "resolved" /\ Len(ExpectedDocuments) > 0)
  /\ (whenDfd = "resolved" /\ Len(ExpectedDocuments) = 0)
     => /\ Count("refreshPermissions") = 0
        /\ refreshDfd = "none"
        /\ Count("MAP_OBJECTS") = 1
        /\ \A i \in OpIdx("MAP_OBJECTS") : Len(log[i].arg) = 0

C12_Witness ==
  /\ whenDfd = "resolved"
  /\ Len(files) = 1
  /\ confirmation = "rejected"
  /\ Count("refreshPermissions") = 0
  /\ Count("MAP_OBJECTS") = 1

\* C13 (as claimed): once the existence query has succeeded both branches are
\* started, and the outcome of the run is never determined while one of the
\* two branches is unsettled.
C13_OutcomeAfterBothSettle ==
  existDfd = "resolved"
  => /\ dfd.state # "none"
     /\ docsDfd.state # "none"
     /\ runDfd \in {"resolved", "rejected"}
        => (dfd.state # "pending" /\ docsDfd.state # "pending")

\* C13 (amended): once the existence query has succeeded both branches are
\* started (prompt shown, saves issued); the run proceeds to finalize exactly
\* when both branches have resolved, and it is rejected exactly when one
\* branch is rejected, also while the other branch is still unsettled.
C13_JoinOfBothBranches ==
  existDfd = "resolved"
  => /\ dfd.state # "none"
     /\ docsDfd.state # "none"
     /\ Len(MatchedStatuses) > 0 => Count("confirm") = 1
     /\ NewCount > 0 => Count("save") = NewCount
     /\ runDfd = "resolved" <=> (dfd.state = "resolved" /\ docsDfd.state = "resolved")
     /\ runDfd = "rejected" <=> (dfd.state = "rejected" \/ docsDfd.state = "rejected")

C13_Witness ==
  /\ existDfd = "resolved"
  /\ runDfd = "rejected"
  /\ docsDfd.state = "rejected"
  /\ confirmation = "pending"
  /\ dfd.state = "pending"

\* C14: BEFORE_DOCUMENT_CREATE is dispatched exactly once in a run with a new
\* file, before every save; in a run without new files it is never
\* dispatched, no save is issued and the new branch resolves with [].
C14_BeforeCreateOnce ==
  /\ existDfd # "resolved" => Count("BEFORE_DOCUMENT_CREATE") = 0
  /\ (existDfd = "resolved" /\ NewCount > 0)
     => /\ Count("BEFORE_DOCUMENT_CREATE") = 1
        /\ Count("save") > 0
        /\ \A b \in OpIdx("BEFORE_DOCUMENT_CREATE"), k \in OpIdx("save") : b < k
  /\ (existDfd = "resolved" /\ NewCount = 0)
     => /\ Count("BEFORE_DOCUMENT_CREATE") = 0
        /\ Count("DOCUMENT_CREATE_FAILED") = 0
        /\ Count("save") = 0
        /\ docsDfd = Resolved(Arr(<<>>))

C14_Witness ==
  /\ Count("BEFORE_DOCUMENT_CREATE") = 1
  /\ Count("save") = 2
  /\ Saved = 1

\* C15: DOCUMENT_CREATE_FAILED is dispatched exactly once when at least one
\* save has failed, however many did, never when no save has failed, and the
\* new branch is rejected whenever it has been dispatched.
C15_CreateFailedOnce ==
  /\ Count("DOCUMENT_CREATE_FAILED") =
       IF \E i \in DOMAIN dfdDocs : dfdDocs[i] = "rejected" THEN 1 ELSE 0
  /\ Count("DOCUMENT_CREATE_FAILED") > 0 => docsDfd.state = "rejected"

C15_Witness ==
  /\ Len(dfdDocs) = 2
  /\ \A i \in DOMAIN dfdDocs : dfdDocs[i] = "rejected"
  /\ Count("DOCUMENT_CREATE_FAILED") = 1

\* C16: no external call is repeated in a run: one existence query, at most
\* one prompt, one admin grant and one permission refresh, and one save for
\* each file handed to createDocuments, as many as there are new files.
C16_NoRepeatedCall ==
  /\ Count("documents_exist") = (IF picker = "resolved" THEN 1 ELSE 0)
  /\ Count("confirm") <= 1
  /\ Count("make_admin") <= 1
  /\ Count("refreshPermissions") <= 1
  /\ Count("save") = Len(dfdDocs)
  /\ Count("save") = NewCount
  /\ \A k \in 1..Len(newFiles) :
       \E i \in OpIdx("save") :
         /\ log[i].arg = <<newFiles[k]>>
         /\ Cardinality({j \in OpIdx("save") : j < i}) = k - 1

C16_Witness ==
  /\ Count("save") = 1
  /\ \E i \in DOMAIN dfdDocs : dfdDocs[i] = "rejected"
  /\ Count("make_admin") = 1
  /\ adminDfd = "rejected"

\* C17: the prompt settles once and the existing branch is settled at most
\* once: a resolved dfd never changes, a decline leaves it resolved with the
\* empty list and without admin grant, a proceed never resolves it empty.
C17_SettledOnce ==
  [][/\ dfd.state = "resolved" => dfd' = dfd
     /\ confirmation \in {"resolved", "rejected"} => confirmation' = confirmation
     /\ confirmation' = "rejected"
        => (dfd'.state = "resolved" /\ Len(dfd'.value.items) = 0 /\ adminDfd' = "none")
     /\ confirmation' = "resolved"
        => ~(dfd'.state = "resolved" /\ Len(dfd'.value.items) = 0)]_vars

C17_Witness ==
  /\ confirmation = "rejected"
  /\ Len(existingDocuments) = 1
  /\ Len(newFiles) = 1
  /\ dfd.state = "resolved"
  /\ whenDfd = "resolved"

\* C18: the list passed to the finalizer is the result of the existing branch
\* followed by one saved document per new file, in the order of the new
\* files, whatever the order in which the saves completed.
C18_MergedOrder ==
  whenDfd = "resolved"
  => /\ dfd.state = "resolved"
     /\ documents = dfd.value.items \o SeqMap(NewDocument, newFiles)

C18_Witness ==
  /\ whenDfd = "resolved"
  /\ Len(newFiles) = 2
  /\ newFiles[1] # newFiles[2]
  /\ saveOrder = <<2, 1>>
  /\ documents[1] = NewDocument(newFiles[1])

\* C19 (as claimed): the partition yields exactly the exists=true statuses
\* and exactly the picked files whose id has no exists=true status, every
\* picked file in exactly one group, also when two files share an id.
C19_PartitionClassifiesEveryFile ==
  existDfd = "resolved"
  => /\ existingDocuments = MatchedStatuses
     /\ \A f \in FileDescriptor :
          Occ(newFiles, f) =
            IF \E i \in DOMAIN statuses : statuses[i].gdrive_id = f.id /\ statuses[i].exists
            THEN 0 ELSE Occ(files, f)

\* C20 (as claimed): when every external call and the prompt settle, a run of
\* mapDocuments ends with objects-mapped published or with its promise rejected.
C20_RunTerminates ==
  (picker = "resolved") ~> (Count("MAP_OBJECTS") > 0 \/ runDfd = "rejected")

====
